---- MODULE Spec2Model ----
(***************************************************************************)
(* Model of vigir_image_proc::CropDecimateNodelet                          *)
(* (vigir_crop_decimate_nodelet/src/crop_decimate_nodelet.cpp).            *)
(*                                                                         *)
(* The nodelet takes its callbacks from getNodeHandle(), the nodelet's     *)
(* single-threaded callback queue, so imageCb, imageRequestCb and          *)
(* publishTimerCb run one at a time and each is one action.  connectCb     *)
(* takes connect_mutex_ itself, so it is also given step by step, run by   *)
(* several threads.                                                        *)
(*                                                                         *)
(* Spec is the relay controller: every callback, connectCb included, is    *)
(* one action of the single-threaded queue, and a consumer change is       *)
(* handled before the next one happens.  SpecGate is the subscription      *)
(* gate: consumer changes and step-by-step connectCb executions race.      *)
(* SpecSteps is the relay once more with imageCb and imageRequestCb taken  *)
(* statement by statement, started by the queue when no callback runs.     *)
(***************************************************************************)
EXTENDS Integers, FiniteSets, Sequences, TLC

\* ------------------------------------------------------------------ bounds
MaxConsumers == 2      \* downstream consumers that can be attached at once
MaxPending   == 2      \* connect callbacks queued and not yet run
NumThreads   == 2      \* threads that can run connectCb
NumFrames    == 2      \* distinct (image, camera info) pairs of the source
MaxCalls     == 3      \* publishCroppedImage calls counted per request
MaxTicks     == 2      \* timer callbacks counted per request

\* --------------------------------------------------------------- constants
NULL        == 0               \* an empty shared_ptr
NoTimer     == 0               \* a default-constructed (invalid) ros::Timer
NanosPerSec == 1000000000      \* ros::Duration(1.0/hz), in nanoseconds

ONCE         == "ONCE"
PUBLISH_FREQ == "PUBLISH_FREQ"
ALL          == "ALL"
UNRECOGNIZED == "UNRECOGNIZED"       \* any mode value that is none of the three
Modes        == {ONCE, PUBLISH_FREQ, ALL, UNRECOGNIZED}

Threads  == 1..NumThreads
Frames   == 1..NumFrames
FreqSet  == {0, 2, 10}         \* publish_frequency values of requests
MaxRates == {5, 100}           \* values of the max_video_framerate parameter
Rois     == {1, 2}             \* two crop geometries

\* A DownSampledImageRequest message.  publish_frequency only varies for
\* PUBLISH_FREQ requests (the other modes never read it, and carry 10).
RequestMsg(m, hz, g) ==
  [mode |-> m, publish_frequency |-> hz, binning_x |-> g, binning_y |-> g + 1,
   roi |-> [width |-> 10 * g, height |-> 20 * g, x_offset |-> g, y_offset |-> 2 * g]]

Requests ==
  {RequestMsg(m, 10, g) : m \in Modes \ {PUBLISH_FREQ}, g \in Rois}
    \cup {RequestMsg(PUBLISH_FREQ, hz, g) : hz \in FreqSet, g \in Rois}

\* last_request_ before any request: an empty pointer.
NoRequest ==
  [mode |-> "NULL", publish_frequency |-> 0, binning_x |-> 0, binning_y |-> 0,
   roi |-> [width |-> 0, height |-> 0, x_offset |-> 0, y_offset |-> 0]]

\* crop_decimate_config_ as onInit leaves it (never read before a request
\* has set it).
NoConfig ==
  [decimation_x |-> 0, decimation_y |-> 0, width |-> 0, height |-> 0,
   x_offset |-> 0, y_offset |-> 0]

\* No imageRequestCb, no imageCb in progress.
NoReqCb == [pc |-> 0, msg |-> NoRequest]

NoImgCb == [pc |-> 0, image |-> NULL, info |-> NULL]

\* No publishCroppedImage call yet.
NoCall ==
  [by |-> "none", image |-> NULL, info |-> NULL, config |-> NoConfig,
   result |-> "none"]

VARIABLES
  numSubscribers,            \* pub_.getNumSubscribers()
  pending,                   \* connect callbacks queued by the transport
  connect_mutex_,            \* 0 = free, else the thread holding it
  pc,                        \* position of each thread in connectCb
  sub_,                      \* TRUE iff the handle sub_ is valid
  upstream,                  \* number of open upstream subscriptions
  max_video_framerate_,
  last_request_,
  crop_decimate_config_,
  crop_decimate_configured_,
  last_image_msg_,
  last_info_msg_,
  image_publish_timer_,      \* NoTimer or the period of the timer, in ns
  calls,                     \* publishCroppedImage calls since the last request
  sent,                      \* pub_.publish calls since the last request
  ticks,                     \* publishTimerCb calls since the last request
  lastCall,                  \* the latest publishCroppedImage call
  reqCb,                     \* imageRequestCb in progress: statement, argument
  imgCb                      \* imageCb in progress: statement, arguments

gateVars  == <<numSubscribers, pending, connect_mutex_, pc, sub_, upstream>>
relayVars == <<max_video_framerate_, last_request_, crop_decimate_config_,
               crop_decimate_configured_, last_image_msg_, last_info_msg_,
               image_publish_timer_>>
outVars   == <<calls, sent, lastCall>>
histVars  == <<outVars, ticks>>
stepVars  == <<reqCb, imgCb>>
vars      == <<gateVars, relayVars, histVars, stepVars>>

\* ------------------------------------------------------------------ onInit
Init ==
  /\ numSubscribers = 0
  /\ pending = 0
  /\ connect_mutex_ = 0
  /\ pc = [t \in Threads |-> "idle"]
  /\ sub_ = FALSE
  /\ upstream = 0
  /\ max_video_framerate_ \in MaxRates
  /\ last_request_ = NoRequest
  /\ crop_decimate_config_ = NoConfig
  /\ crop_decimate_configured_ = FALSE
  /\ last_image_msg_ = NULL
  /\ last_info_msg_ = NULL
  /\ image_publish_timer_ = NoTimer
  /\ calls = 0
  /\ sent = 0
  /\ ticks = 0
  /\ lastCall = NoCall
  /\ reqCb = NoReqCb
  /\ imgCb = NoImgCb

\* --------------------------------------------------- consumer attach/detach
\* The transport changes the subscriber count of pub_ and queues connect_cb.
Attach ==
  /\ numSubscribers < MaxConsumers
  /\ pending < MaxPending
  /\ numSubscribers' = numSubscribers + 1
  /\ pending' = pending + 1
  /\ UNCHANGED <<connect_mutex_, pc, sub_, upstream, relayVars, histVars, stepVars>>

Detach ==
  /\ numSubscribers > 0
  /\ pending < MaxPending
  /\ numSubscribers' = numSubscribers - 1
  /\ pending' = pending + 1
  /\ UNCHANGED <<connect_mutex_, pc, sub_, upstream, relayVars, histVars, stepVars>>

\* --------------------------------------------------------------- connectCb
\* Variant: connectCb without the lock_guard.
LockFreeUnguarded(t) == TRUE

\* boost::lock_guard<boost::mutex> lock(connect_mutex_): blocks while held.
LockFree(t) == connect_mutex_ = 0

\* A thread takes a queued callback and acquires the mutex.
connectCb_lock(t) ==
  /\ pc[t] = "idle"
  /\ pending > 0
  /\ LockFree(t)
  /\ pending' = pending - 1
  /\ connect_mutex_' = t
  /\ pc' = [pc EXCEPT ![t] = "test"]
  /\ UNCHANGED <<numSubscribers, sub_, upstream, relayVars, histVars, stepVars>>

\* Variant: subscribing without the !sub_ test.
NeedsSubscribeAlways(valid) == TRUE

\* else if (!sub_)
NeedsSubscribe(valid) == ~valid

\* The branch connectCb takes:
\* if (getNumSubscribers() == 0) sub_.shutdown(); else if (!sub_) { ... }
Branch(n, valid) ==
  IF n = 0 THEN "shutdown"
  ELSE IF NeedsSubscribe(valid) THEN "subscribe"
  ELSE "none"

\* sub_.shutdown() closes the subscription the handle holds, if any;
\* subscribeCamera(...) creates the new subscription.
connectCb_test(t) ==
  /\ pc[t] = "test"
  /\ IF Branch(numSubscribers, sub_) = "shutdown"
       THEN /\ sub_' = FALSE
            /\ upstream' = IF sub_ THEN upstream - 1 ELSE upstream
            /\ pc' = [pc EXCEPT ![t] = "unlock"]
       ELSE IF Branch(numSubscribers, sub_) = "subscribe"
         THEN /\ upstream' = upstream + 1
              /\ sub_' = sub_
              /\ pc' = [pc EXCEPT ![t] = "assign"]
         ELSE /\ UNCHANGED <<sub_, upstream>>
              /\ pc' = [pc EXCEPT ![t] = "unlock"]
  /\ UNCHANGED <<numSubscribers, pending, connect_mutex_, relayVars, histVars, stepVars>>

\* sub_ = <new subscription>: the handle sub_ held before is released.
connectCb_assign(t) ==
  /\ pc[t] = "assign"
  /\ sub_' = TRUE
  /\ upstream' = IF sub_ THEN upstream - 1 ELSE upstream
  /\ pc' = [pc EXCEPT ![t] = "unlock"]
  /\ UNCHANGED <<numSubscribers, pending, connect_mutex_, relayVars, histVars, stepVars>>

\* return: the lock_guard releases the mutex.
connectCb_unlock(t) ==
  /\ pc[t] = "unlock"
  /\ connect_mutex_' = IF connect_mutex_ = t THEN 0 ELSE connect_mutex_
  /\ pc' = [pc EXCEPT ![t] = "idle"]
  /\ UNCHANGED <<numSubscribers, pending, sub_, upstream, relayVars, histVars, stepVars>>

\* Variant: the shutdown branch also drops the cached frame.
connectCbClearing ==
  /\ pending > 0
  /\ \A t \in Threads : pc[t] = "idle"
  /\ LockFree(1)
  /\ pending' = pending - 1
  /\ IF Branch(numSubscribers, sub_) = "shutdown"
       THEN /\ sub_' = FALSE
            /\ upstream' = IF sub_ THEN upstream - 1 ELSE upstream
            /\ last_image_msg_' = NULL
            /\ last_info_msg_' = NULL
       ELSE IF Branch(numSubscribers, sub_) = "subscribe"
         THEN /\ sub_' = TRUE
              /\ upstream' = IF sub_ THEN upstream ELSE upstream + 1
              /\ UNCHANGED <<last_image_msg_, last_info_msg_>>
         ELSE UNCHANGED <<sub_, upstream, last_image_msg_, last_info_msg_>>
  /\ UNCHANGED <<numSubscribers, connect_mutex_, pc, max_video_framerate_,
                 last_request_, crop_decimate_config_,
                 crop_decimate_configured_, image_publish_timer_, histVars,
                 stepVars>>

\* connectCb as one callback of the single-threaded queue: the mutex is
\* free when it starts and released when it returns.
connectCb ==
  /\ pending > 0
  /\ \A t \in Threads : pc[t] = "idle"
  /\ LockFree(1)
  /\ pending' = pending - 1
  /\ IF Branch(numSubscribers, sub_) = "shutdown"
       THEN /\ sub_' = FALSE
            /\ upstream' = IF sub_ THEN upstream - 1 ELSE upstream
       ELSE IF Branch(numSubscribers, sub_) = "subscribe"
         THEN /\ sub_' = TRUE
              /\ upstream' = IF sub_ THEN upstream ELSE upstream + 1
         ELSE UNCHANGED <<sub_, upstream>>
  /\ UNCHANGED <<numSubscribers, connect_mutex_, pc, relayVars, histVars, stepVars>>

\* ----------------------------------------------------- publishCroppedImage
\* Variant: processing without the NULL test on the cached frame.
publishCroppedImageUnchecked(by, image, info, config, ok) ==
  [by |-> by, image |-> image, info |-> info, config |-> config,
   result |-> IF ok THEN "published" ELSE "failed"]

\* The call made with the members as they are at the call; ok is the result
\* of crop_decimate_.processImage.
publishCroppedImage(by, image, info, config, ok) ==
  [by |-> by, image |-> image, info |-> info, config |-> config,
   result |-> IF image # NULL /\ info # NULL
                THEN (IF ok THEN "published" ELSE "failed")
                ELSE "not_ready"]

\* The results crop_decimate_.processImage can give; without a cached frame
\* it is not called.
ProcessImage(image, info) ==
  IF image # NULL /\ info # NULL THEN BOOLEAN ELSE {FALSE}

\* Variant: pub_.publish called whatever processImage returned.
PublishedWhateverResult(call) ==
  IF call.result \in {"published", "failed"} THEN 1 ELSE 0

\* pub_.publish is called when processImage returned true.
Published(call) == IF call.result = "published" THEN 1 ELSE 0

\* ----------------------------------------------------------------- imageCb
\* Variants: imageCb publishing in every mode, or in ONCE instead of ALL.
FreeRunAlways(req) == TRUE

FreeRunOnce(req) == req.mode = ONCE

\* if (last_request_->mode == ALL)
FreeRun(req) == req.mode = ALL

\* Variant: imageCb republishing every frame, request or not.
ImagePublishesUnconditional(req) == TRUE

\* if (!last_request_) return;  if (last_request_->mode == ALL) publish
ImagePublishes(req) == req # NoRequest /\ FreeRun(req)

imageCb(image_msg, info_msg, ok) ==
  /\ upstream > 0
  /\ last_image_msg_' = image_msg
  /\ last_info_msg_' = info_msg
  /\ IF ImagePublishes(last_request_)
       THEN /\ calls < MaxCalls
            /\ lastCall' = publishCroppedImage("frame", image_msg, info_msg,
                                               crop_decimate_config_, ok)
            /\ calls' = calls + 1
            /\ sent' = sent + Published(lastCall')
       ELSE UNCHANGED outVars
  /\ UNCHANGED <<gateVars, max_video_framerate_, last_request_,
                 crop_decimate_config_, crop_decimate_configured_,
                 image_publish_timer_, ticks, stepVars>>

\* ---------------------------------------------------------- imageRequestCb
ConfigOf(req) ==
  [decimation_x |-> req.binning_x, decimation_y |-> req.binning_y,
   width |-> req.roi.width, height |-> req.roi.height,
   x_offset |-> req.roi.x_offset, y_offset |-> req.roi.y_offset]

\* Variant: std::max in place of std::min.
CappedMax(cap, hz) == IF hz > cap THEN hz ELSE cap

\* std::min(max_video_framerate_, (double) publish_frequency)
CappedPublishFrequency(cap, hz) == IF hz < cap THEN hz ELSE cap

\* ros::Duration(1.0 / capped_publish_frequency)
Period(hz) == NanosPerSec \div hz

\* Variant: the timer created in every branch, not only for PUBLISH_FREQ.
TimerAfterAlwaysArmed(req, cap, timer) ==
  IF CappedPublishFrequency(cap, req.publish_frequency) > 0
    THEN Period(CappedPublishFrequency(cap, req.publish_frequency))
    ELSE timer

\* The timer handle after the request: createTimer replaces the handle (the
\* timer it held is destroyed); nothing else touches image_publish_timer_.
TimerAfter(req, cap, timer) ==
  IF req.mode = PUBLISH_FREQ /\ CappedPublishFrequency(cap, req.publish_frequency) > 0
    THEN Period(CappedPublishFrequency(cap, req.publish_frequency))
    ELSE timer

imageRequestCb(image_request_msg, ok) ==
  /\ last_request_' = image_request_msg
  /\ crop_decimate_config_' = ConfigOf(image_request_msg)
  /\ crop_decimate_configured_' = TRUE
  /\ lastCall' = publishCroppedImage("request", last_image_msg_, last_info_msg_,
                                     crop_decimate_config_', ok)
  /\ calls' = 1
  /\ sent' = Published(lastCall')
  /\ ticks' = 0
  /\ image_publish_timer_' =
       TimerAfter(image_request_msg, max_video_framerate_, image_publish_timer_)
  /\ UNCHANGED <<gateVars, max_video_framerate_, last_image_msg_, last_info_msg_,
                 stepVars>>

\* ---------------------------------------------------------- publishTimerCb
\* Variant: publishTimerCb without the mode test.
TimerPublishesAlways(req) == TRUE

\* if (last_request_->mode != PUBLISH_FREQ) return;
TimerPublishes(req) == req.mode = PUBLISH_FREQ

\* Variant: a timer that fires although no request has created it.
TimerArmedAlways(timer) == TRUE

\* The timer calls publishTimerCb once createTimer has made it.
TimerArmed(timer) == timer # NoTimer

\* Variant: a tick outside PUBLISH_FREQ mode stops the timer.
publishTimerCbStopping(ok) ==
  /\ TimerArmed(image_publish_timer_)
  /\ ticks < MaxTicks
  /\ calls < MaxCalls
  /\ ticks' = ticks + 1
  /\ IF TimerPublishes(last_request_)
       THEN /\ lastCall' = publishCroppedImage("timer", last_image_msg_,
                                               last_info_msg_,
                                               crop_decimate_config_, ok)
            /\ calls' = calls + 1
            /\ sent' = sent + Published(lastCall')
            /\ UNCHANGED image_publish_timer_
       ELSE /\ image_publish_timer_' = NoTimer
            /\ UNCHANGED outVars
  /\ UNCHANGED <<gateVars, max_video_framerate_, last_request_,
                 crop_decimate_config_, crop_decimate_configured_,
                 last_image_msg_, last_info_msg_, stepVars>>

publishTimerCb(ok) ==
  /\ TimerArmed(image_publish_timer_)
  /\ ticks < MaxTicks
  /\ calls < MaxCalls
  /\ ticks' = ticks + 1
  /\ IF TimerPublishes(last_request_)
       THEN /\ lastCall' = publishCroppedImage("timer", last_image_msg_,
                                               last_info_msg_,
                                               crop_decimate_config_, ok)
            /\ calls' = calls + 1
            /\ sent' = sent + Published(lastCall')
       ELSE UNCHANGED outVars
  /\ UNCHANGED <<gateVars, relayVars, stepVars>>

\* ------------------------------------------------------------ specification
FrameArrives == \E f \in Frames : \E ok \in ProcessImage(f, f) : imageCb(f, f, ok)

RequestArrives ==
  \E r \in Requests, ok \in ProcessImage(last_image_msg_, last_info_msg_) :
    imageRequestCb(r, ok)

TimerTick ==
  \E ok \in ProcessImage(last_image_msg_, last_info_msg_) : publishTimerCb(ok)

ConnectLock == \E t \in Threads : connectCb_lock(t)

ConnectTest == \E t \in Threads : connectCb_test(t)

ConnectAssign == \E t \in Threads : connectCb_assign(t)

ConnectUnlock == \E t \in Threads : connectCb_unlock(t)

\* No consumer change is waiting for its callback and no callback is running.
Quiet == pending = 0 /\ \A t \in Threads : pc[t] = "idle"

AttachQuiet == Quiet /\ Attach

DetachQuiet == Quiet /\ Detach

Next ==
  \/ AttachQuiet
  \/ DetachQuiet
  \/ connectCb
  \/ FrameArrives
  \/ RequestArrives
  \/ TimerTick

Spec == Init /\ [][Next]_vars

NextGate ==
  \/ Attach
  \/ Detach
  \/ ConnectLock
  \/ ConnectTest
  \/ ConnectAssign
  \/ ConnectUnlock
  \/ FrameArrives

SpecGate == Init /\ [][NextGate]_vars

\* ------------------------------------------------- statement by statement
\* The callbacks once more, a statement at a time.  reqCb and imgCb hold the
\* statement each running callback is at and its arguments.

\* Variant: getMTNodeHandle(), the multi-threaded queue: callbacks overlap.
QueueFreeMT == TRUE

\* getNodeHandle(): the queue starts a callback when none is running.
QueueFree == reqCb.pc = 0 /\ imgCb.pc = 0

ConfigFields ==
  {"decimation_x", "decimation_y", "width", "height", "x_offset", "y_offset"}

\* Variant: the timer created before the request's own publish.
RequestStatementsTimerFirst(mode) ==
  <<"decimation_x", "decimation_y", "width", "height", "x_offset", "y_offset">>
    \o (IF mode = PUBLISH_FREQ THEN <<"createTimer">> ELSE <<>>)
    \o <<"publishCroppedImage">>

\* The statements of imageRequestCb after last_request_ = image_request_msg.
RequestStatements(mode) ==
  <<"decimation_x", "decimation_y", "width", "height", "x_offset", "y_offset",
    "publishCroppedImage">>
    \o (IF mode = PUBLISH_FREQ THEN <<"createTimer">> ELSE <<>>)

\* The statement imageRequestCb is at.
RequestStatement ==
  IF reqCb.pc = 0 THEN "none" ELSE RequestStatements(reqCb.msg.mode)[reqCb.pc]

RequestAdvance ==
  reqCb' = IF reqCb.pc = Len(RequestStatements(reqCb.msg.mode))
             THEN NoReqCb
             ELSE [reqCb EXCEPT !.pc = reqCb.pc + 1]

\* The value image_request_msg gives to a field of crop_decimate_config_.
RequestField(msg, field) == ConfigOf(msg)[field]

\* last_request_ = image_request_msg;
imageRequestCb_store(image_request_msg) ==
  /\ QueueFree
  /\ reqCb.pc = 0
  /\ last_request_' = image_request_msg
  /\ reqCb' = [pc |-> 1, msg |-> image_request_msg]
  /\ calls' = 0
  /\ sent' = 0
  /\ ticks' = 0
  /\ UNCHANGED <<gateVars, max_video_framerate_, crop_decimate_config_,
                 crop_decimate_configured_, last_image_msg_, last_info_msg_,
                 image_publish_timer_, lastCall, imgCb>>

\* crop_decimate_config_.<field> = image_request_msg-><field>;
imageRequestCb_config ==
  /\ RequestStatement \in ConfigFields
  /\ crop_decimate_config_' =
       [crop_decimate_config_ EXCEPT
          ![RequestStatement] = RequestField(reqCb.msg, RequestStatement)]
  /\ RequestAdvance
  /\ UNCHANGED <<gateVars, max_video_framerate_, last_request_,
                 crop_decimate_configured_, last_image_msg_, last_info_msg_,
                 image_publish_timer_, histVars, imgCb>>

\* crop_decimate_configured_ = true;  publishCroppedImage() in the branch of
\* last_request_->mode.
imageRequestCb_publish(ok) ==
  /\ RequestStatement = "publishCroppedImage"
  /\ calls < MaxCalls
  /\ crop_decimate_configured_' = TRUE
  /\ lastCall' = publishCroppedImage("request", last_image_msg_, last_info_msg_,
                                     crop_decimate_config_, ok)
  /\ calls' = calls + 1
  /\ sent' = sent + Published(lastCall')
  /\ RequestAdvance
  /\ UNCHANGED <<gateVars, max_video_framerate_, last_request_,
                 crop_decimate_config_, last_image_msg_, last_info_msg_,
                 image_publish_timer_, ticks, imgCb>>

\* if (capped_publish_frequency > 0.0f) image_publish_timer_ = createTimer(..)
imageRequestCb_timer ==
  /\ RequestStatement = "createTimer"
  /\ image_publish_timer_' =
       TimerAfter(reqCb.msg, max_video_framerate_, image_publish_timer_)
  /\ RequestAdvance
  /\ UNCHANGED <<gateVars, max_video_framerate_, last_request_,
                 crop_decimate_config_, crop_decimate_configured_,
                 last_image_msg_, last_info_msg_, histVars, imgCb>>

\* The statements of imageCb.
ImageStatements == <<"last_image_msg_", "last_info_msg_", "publish">>

ImageStatement == IF imgCb.pc = 0 THEN "none" ELSE ImageStatements[imgCb.pc]

ImageAdvance ==
  imgCb' = IF imgCb.pc = Len(ImageStatements)
             THEN NoImgCb
             ELSE [imgCb EXCEPT !.pc = imgCb.pc + 1]

\* The queue takes a frame of the open subscription and enters imageCb.
imageCb_enter(image_msg, info_msg) ==
  /\ QueueFree
  /\ imgCb.pc = 0
  /\ upstream > 0
  /\ imgCb' = [pc |-> 1, image |-> image_msg, info |-> info_msg]
  /\ UNCHANGED <<gateVars, relayVars, histVars, reqCb>>

\* last_image_msg_ = image_msg;
imageCb_image ==
  /\ ImageStatement = "last_image_msg_"
  /\ last_image_msg_' = imgCb.image
  /\ ImageAdvance
  /\ UNCHANGED <<gateVars, max_video_framerate_, last_request_,
                 crop_decimate_config_, crop_decimate_configured_,
                 last_info_msg_, image_publish_timer_, histVars, reqCb>>

\* last_info_msg_ = info_msg;
imageCb_info ==
  /\ ImageStatement = "last_info_msg_"
  /\ last_info_msg_' = imgCb.info
  /\ ImageAdvance
  /\ UNCHANGED <<gateVars, max_video_framerate_, last_request_,
                 crop_decimate_config_, crop_decimate_configured_,
                 last_image_msg_, image_publish_timer_, histVars, reqCb>>

\* if (!last_request_) return;  if (mode == ALL) publishCroppedImage();
imageCb_publish(ok) ==
  /\ ImageStatement = "publish"
  /\ IF ImagePublishes(last_request_)
       THEN /\ calls < MaxCalls
            /\ lastCall' = publishCroppedImage("frame", last_image_msg_,
                                               last_info_msg_,
                                               crop_decimate_config_, ok)
            /\ calls' = calls + 1
            /\ sent' = sent + Published(lastCall')
       ELSE UNCHANGED outVars
  /\ ImageAdvance
  /\ UNCHANGED <<gateVars, relayVars, ticks, reqCb>>

\* The queue runs publishTimerCb.
publishTimerCb_queued(ok) == QueueFree /\ publishTimerCb(ok)

RequestStored == \E r \in Requests : imageRequestCb_store(r)

RequestConfig == imageRequestCb_config

RequestPublish ==
  \E ok \in ProcessImage(last_image_msg_, last_info_msg_) :
    imageRequestCb_publish(ok)

RequestTimer == imageRequestCb_timer

FrameEnters == \E f \in Frames : imageCb_enter(f, f)

FrameImage == imageCb_image

FrameInfo == imageCb_info

FramePublish ==
  \E ok \in ProcessImage(last_image_msg_, last_info_msg_) : imageCb_publish(ok)

TimerTickQueued ==
  \E ok \in ProcessImage(last_image_msg_, last_info_msg_) :
    publishTimerCb_queued(ok)

\* The nodelet with one consumer attached and its connectCb done.
InitSteps ==
  /\ numSubscribers = 1
  /\ pending = 0
  /\ connect_mutex_ = 0
  /\ pc = [t \in Threads |-> "idle"]
  /\ sub_ = TRUE
  /\ upstream = 1
  /\ max_video_framerate_ \in MaxRates
  /\ last_request_ = NoRequest
  /\ crop_decimate_config_ = NoConfig
  /\ crop_decimate_configured_ = FALSE
  /\ last_image_msg_ = NULL
  /\ last_info_msg_ = NULL
  /\ image_publish_timer_ = NoTimer
  /\ calls = 0
  /\ sent = 0
  /\ ticks = 0
  /\ lastCall = NoCall
  /\ reqCb = NoReqCb
  /\ imgCb = NoImgCb

NextSteps ==
  \/ RequestStored
  \/ RequestConfig
  \/ RequestPublish
  \/ RequestTimer
  \/ FrameEnters
  \/ FrameImage
  \/ FrameInfo
  \/ FramePublish
  \/ TimerTickQueued

SpecSteps == InitSteps /\ [][NextSteps]_vars

\* ==================================================================== claims
Mode == last_request_.mode

\* min(configuredMaxHz, requestedHz) of the current request.
EffectiveHz ==
  IF last_request_.publish_frequency <= max_video_framerate_
    THEN last_request_.publish_frequency
    ELSE max_video_framerate_

FrameCached == last_image_msg_ # NULL /\ last_info_msg_ # NULL

\* C1: while the current request is PERIODIC with requested frequency 0,
\* exactly one publish attempt has occurred (the immediate one) and no
\* recurring timer is armed.
C1_ZeroHzOnePublishNoTimer ==
  (Mode = PUBLISH_FREQ /\ last_request_.publish_frequency = 0)
    => (calls = 1 /\ lastCall.by = "request" /\ image_publish_timer_ = NoTimer)

\* C2: once a request has been handled, a recurring timer is active if and
\* only if the current request is PERIODIC with effective frequency > 0.
C2_TimerIffPeriodic ==
  last_request_ # NoRequest
    => ((image_publish_timer_ # NoTimer) <=> (Mode = PUBLISH_FREQ /\ EffectiveHz > 0))

\* C3: while the current request is ONCE, exactly one publish attempt has
\* occurred since it arrived, the one made by the request handler, whatever
\* frames and timer ticks came after it.
C3_OnceExactlyOneAttempt ==
  Mode = ONCE => (calls = 1 /\ lastCall.by = "request")

\* A ONCE request followed by a new frame and by ticks of a timer that an
\* earlier PERIODIC request armed.
C3_Witness ==
  /\ Mode = ONCE
  /\ ticks = MaxTicks
  /\ FrameCached
  /\ lastCall.image # last_image_msg_
  /\ calls = 1

\* C4: while the mode is ALL, every frame arrival makes exactly one publish
\* attempt, with the frame that just arrived and the current CropConfig, and
\* a timer tick makes none.
C4_AllOnePublishPerFrame ==
  [][/\ \A f \in Frames : \A ok \in ProcessImage(f, f) :
          (Mode = ALL /\ imageCb(f, f, ok))
            => /\ calls' = calls + 1
               /\ lastCall'.by = "frame"
               /\ lastCall'.image = f
               /\ lastCall'.info = f
               /\ lastCall'.config = crop_decimate_config_
               /\ lastCall'.result \in {"published", "failed"}
     /\ (Mode = ALL /\ TimerTick) => UNCHANGED outVars]_vars

\* An ALL request followed by two frame arrivals and a timer tick.
C4_Witness ==
  /\ Mode = ALL
  /\ calls = 3
  /\ lastCall.by = "frame"
  /\ lastCall.image = last_image_msg_
  /\ ticks > 0

\* C5: a timer tick changes nothing and publishes nothing unless the mode is
\* PERIODIC, and then it makes one publish attempt with the cached frame; so
\* a ONCE request that replaced a PERIODIC one has its single attempt only.
C5_TickGuardedByMode ==
  [][TimerTick =>
       IF Mode = PUBLISH_FREQ
         THEN /\ calls' = calls + 1
              /\ lastCall' = [by |-> "timer", image |-> last_image_msg_,
                              info |-> last_info_msg_,
                              config |-> crop_decimate_config_,
                              result |-> lastCall'.result]
              /\ lastCall'.result \in
                   (IF FrameCached THEN {"published", "failed"} ELSE {"not_ready"})
              /\ UNCHANGED <<gateVars, relayVars>>
         ELSE UNCHANGED <<gateVars, relayVars, outVars>>]_vars

\* A ONCE request replaced a PERIODIC one, its publish went out, and the old
\* timer has fired since.
C5_Witness ==
  /\ Mode = ONCE
  /\ image_publish_timer_ # NoTimer
  /\ ticks = MaxTicks
  /\ sent = 1
  /\ lastCall.by = "request"

\* C6: the timer of a PERIODIC request has period 1/min(configuredMaxHz,
\* requestedHz), so its rate never exceeds the cap: 10 Hz requested under a
\* cap of 5 Hz gives a 5 Hz timer (200 ms).
C6_TimerRateCapped ==
  /\ (Mode = PUBLISH_FREQ /\ EffectiveHz > 0)
       => image_publish_timer_ = NanosPerSec \div EffectiveHz
  /\ image_publish_timer_ # NoTimer
       => image_publish_timer_ >= NanosPerSec \div max_video_framerate_
  /\ (Mode = PUBLISH_FREQ /\ last_request_.publish_frequency = 10
        /\ max_video_framerate_ = 5)
       => image_publish_timer_ = 200000000

\* 10 Hz requested under a cap of 5 Hz: the immediate publish, then ticks.
C6_Witness ==
  /\ Mode = PUBLISH_FREQ
  /\ last_request_.publish_frequency = 10
  /\ max_video_framerate_ = 5
  /\ image_publish_timer_ = 200000000
  /\ calls = 2
  /\ lastCall.by = "timer"

\* C7: the gate never holds two upstream subscriptions, and when no consumer
\* change is pending and no callback is running the upstream subscription is
\* open if and only if a consumer is attached.
C7_GateOpenIffConsumers ==
  /\ upstream <= 1
  /\ Quiet => /\ (upstream = 1) <=> (numSubscribers > 0)
              /\ sub_ <=> (upstream = 1)
              /\ connect_mutex_ = 0

\* A callback is opening the subscription while the last consumer has
\* detached and the callback of that change is still waiting.
C7_Witness ==
  \E t \in Threads :
    /\ pc[t] = "assign"
    /\ numSubscribers = 0
    /\ pending > 0
    /\ upstream = 1

\* C8: connectCb opens the upstream subscription exactly when the count is
\* > 0 and it is closed, closes it exactly when the count is 0 and it is
\* open, and otherwise leaves the subscription as it is.
C8_GateIdempotent ==
  [][/\ ConnectTest =>
          /\ (numSubscribers > 0 /\ sub_) => UNCHANGED <<sub_, upstream>>
          /\ (numSubscribers = 0 /\ ~sub_) => UNCHANGED <<sub_, upstream>>
          /\ (numSubscribers > 0 /\ ~sub_) => (upstream = 0 /\ upstream' = 1)
          /\ (numSubscribers = 0 /\ sub_)
               => (upstream = 1 /\ upstream' = 0 /\ ~sub_')
     /\ ConnectAssign => (~sub_ /\ sub_' /\ upstream' = 1 /\ upstream = 1)
     /\ (ConnectLock \/ ConnectUnlock) => UNCHANGED <<sub_, upstream>>]_vars

\* A callback ran with two consumers attached and the subscription already
\* open, and left it open.
C8_Witness ==
  \E t \in Threads :
    /\ pc[t] = "unlock"
    /\ numSubscribers = 2
    /\ pending = 0
    /\ sub_
    /\ upstream = 1

\* What the cache allows a publish attempt to do.
C9_NotReadySilent ==
  /\ ~FrameCached => (sent = 0 /\ lastCall.result \in {"none", "not_ready"})
  /\ lastCall.result = "published" => (lastCall.image # NULL /\ lastCall.info # NULL)
  /\ lastCall.result \in {"published", "failed"}
       => (lastCall.image # NULL /\ lastCall.info # NULL)

C9_ResumeStep ==
  /\ (~FrameCached /\ RequestArrives) => (sent' = 0 /\ lastCall'.result = "not_ready")
  /\ (~FrameCached /\ TimerTick) => (sent' = 0 /\ lastCall'.result \in {"none", "not_ready"})
  /\ \A f \in Frames : \A ok \in ProcessImage(f, f) :
       (last_image_msg_' = f /\ imageCb(f, f, ok)) =>
         /\ Mode = ALL => lastCall' = [by |-> "frame", image |-> f, info |-> f,
                                       config |-> crop_decimate_config_,
                                       result |-> IF ok THEN "published" ELSE "failed"]
         /\ Mode \in {ONCE, UNRECOGNIZED, PUBLISH_FREQ} => UNCHANGED outVars
  /\ (Mode = PUBLISH_FREQ /\ FrameCached /\ TimerTick)
       => (lastCall'.by = "timer" /\ lastCall'.result \in {"published", "failed"}
           /\ lastCall'.image = last_image_msg_)

\* C9: with no frame cached, requests and timer ticks publish nothing; after
\* the first frame ALL publishes on each arrival, PERIODIC on each tick, the
\* other modes stay silent; no publish carries an absent image or info.
C9_NoFrameNoPublish == []C9_NotReadySilent /\ [][C9_ResumeStep]_vars

\* A PERIODIC request arrived before any frame and its timer has ticked.
C9_Witness ==
  /\ ~FrameCached
  /\ Mode = PUBLISH_FREQ
  /\ ticks > 0
  /\ lastCall.by = "timer"
  /\ lastCall.result = "not_ready"

C10_OneAttempt ==
  Mode = UNRECOGNIZED => (calls = 1 /\ lastCall.by = "request")

C10_Accepted ==
  last_request_'.mode = UNRECOGNIZED =>
    \A r \in Requests, ok \in ProcessImage(last_image_msg_, last_info_msg_) :
      (r.mode = UNRECOGNIZED /\ imageRequestCb(r, ok))
        => /\ last_request_' = r
           /\ crop_decimate_config_' = ConfigOf(r)
           /\ calls' = 1
           /\ lastCall'.by = "request"
           /\ image_publish_timer_' = image_publish_timer_

C11_FailedStep ==
  lastCall'.result = "failed" =>
    /\ TimerTick =>
         /\ sent' = sent
         /\ UNCHANGED <<gateVars, relayVars>>
    /\ FrameArrives =>
         /\ sent' = sent
         /\ last_image_msg_' # NULL /\ last_info_msg_' # NULL
         /\ UNCHANGED <<gateVars, last_request_, crop_decimate_config_,
                        image_publish_timer_>>
    /\ RequestArrives =>
         /\ sent' = 0
         /\ crop_decimate_config_' = ConfigOf(last_request_')
         /\ image_publish_timer_' =
              TimerAfter(last_request_', max_video_framerate_, image_publish_timer_)
         /\ UNCHANGED <<gateVars, last_image_msg_, last_info_msg_>>

C11_StillAttempting ==
  lastCall.result = "failed" =>
    /\ FrameCached
    /\ lastCall.by = "timer" => TimerArmed(image_publish_timer_) /\ TimerPublishes(last_request_)
    /\ lastCall.by = "frame" => ImagePublishes(last_request_)

C11_FailureLeavesStateAlone == []C11_StillAttempting /\ [][C11_FailedStep]_vars

\* The request's own publish went out, the first tick's transform failed,
\* and the timer can tick again.
C11_Witness ==
  /\ lastCall.by = "timer"
  /\ lastCall.result = "failed"
  /\ sent = 1
  /\ ticks < MaxTicks
  /\ calls < MaxCalls
  /\ TimerArmed(image_publish_timer_)

\* C12: every publishCroppedImage call gets a configuration whose six fields
\* are those of the one current request: not fields of two requests, not the
\* new request with the configuration of the one before, whatever callbacks
\* the queue has waiting while imageRequestCb runs.
C12_WholeConfig ==
  reqCb.pc = 0 /\ last_request_ # NoRequest =>
    crop_decimate_config_ = ConfigOf(last_request_)

C12_AttemptStep ==
  calls' = calls + 1 =>
    /\ last_request_' \in Requests
    /\ lastCall'.config = ConfigOf(last_request_')

C12_ConfigFromCurrentRequest == []C12_WholeConfig /\ [][C12_AttemptStep]_vars

\* imageRequestCb is half way through the fields of a new request, after a
\* frame publish under the request before: the configuration is a mix.
C12_Witness ==
  /\ reqCb.pc # 0
  /\ lastCall.by = "frame"
  /\ lastCall.config # ConfigOf(last_request_)
  /\ \A r \in Requests : crop_decimate_config_ # ConfigOf(r)
  /\ crop_decimate_config_.decimation_x = ConfigOf(last_request_).decimation_x

\* C13: at most one timer is active, it is the one armed by the most recent
\* PUBLISH_FREQ request, and publishes happen at that request's rate only:
\* while the current request is a PUBLISH_FREQ one, an armed timer has the
\* period of that request's capped frequency.
C13_TimerOfLatestPeriodicRequest ==
  Mode = PUBLISH_FREQ /\ TimerArmed(image_publish_timer_) =>
    /\ EffectiveHz > 0
    /\ image_publish_timer_ = Period(EffectiveHz)

\* C14: every imageRequestCb, whatever the mode, calls publishCroppedImage
\* exactly once, with the newest cached frame and the configuration of that
\* same request, and in the PUBLISH_FREQ branch the call comes before the
\* timer is created.
C14_HandlerStep ==
  /\ reqCb.pc = 0 /\ reqCb'.pc # 0 => calls' = 0 /\ last_request_' = reqCb'.msg
  /\ reqCb.pc # 0 =>
       /\ RequestStatement \in ConfigFields =>
            calls' = 0 /\ image_publish_timer_' = image_publish_timer_
       /\ RequestStatement = "publishCroppedImage" =>
            /\ calls = 0
            /\ calls' = 1
            /\ lastCall'.by = "request"
            /\ lastCall'.image = last_image_msg_
            /\ lastCall'.info = last_info_msg_
            /\ lastCall'.config = ConfigOf(reqCb.msg)
            /\ last_request_ = reqCb.msg
            /\ image_publish_timer_' = image_publish_timer_
       /\ RequestStatement = "createTimer" =>
            /\ calls = 1
            /\ calls' = 1
            /\ lastCall.by = "request"
            /\ lastCall.config = ConfigOf(reqCb.msg)
            /\ lastCall' = lastCall
       /\ reqCb'.pc = 0 => calls' = 1 /\ lastCall'.by = "request"

C14_OnePublishPerRequest == [][C14_HandlerStep]_vars

\* A PUBLISH_FREQ request has published the cached frame and is about to
\* create the first timer.
C14_Witness ==
  /\ RequestStatement = "createTimer"
  /\ reqCb.msg.publish_frequency > 0
  /\ image_publish_timer_ = NoTimer
  /\ calls = 1
  /\ lastCall.by = "request"
  /\ lastCall.result = "published"
  /\ lastCall.image = NumFrames

\* C15: no publishCroppedImage call happens before the first request: imageCb
\* without a request only overwrites the cached frame, so a publish implies
\* that a request has been received and a frame has been cached.
C15_NothingBeforeRequest ==
  /\ last_request_ = NoRequest => calls = 0 /\ sent = 0 /\ lastCall = NoCall
  /\ sent > 0 => last_request_ # NoRequest /\ FrameCached

C15_FrameBeforeRequest ==
  last_request_ = NoRequest /\ FrameArrives =>
    /\ last_image_msg_' \in Frames
    /\ last_info_msg_' = last_image_msg_'
    /\ UNCHANGED <<gateVars, max_video_framerate_, last_request_,
                   crop_decimate_config_, crop_decimate_configured_,
                   image_publish_timer_, histVars>>

C15_NoPublishBeforeRequest ==
  []C15_NothingBeforeRequest /\ [][C15_FrameBeforeRequest]_vars

\* A later frame has overwritten the cached one and still no request.
C15_Witness ==
  /\ last_request_ = NoRequest
  /\ last_image_msg_ = NumFrames
  /\ last_info_msg_ = NumFrames
  /\ calls = 0
  /\ upstream > 0

\* C16: each callback writes its own part of the members only: imageCb the
\* cached frame; imageRequestCb the request, the configuration and the timer
\* handle; publishTimerCb none of the cached frame, the request, the
\* configuration, the timer and the subscription.
C16_OwnPartOnly ==
  /\ FrameArrives =>
       UNCHANGED <<gateVars, max_video_framerate_, last_request_,
                   crop_decimate_config_, crop_decimate_configured_,
                   image_publish_timer_>>
  /\ RequestArrives =>
       UNCHANGED <<gateVars, max_video_framerate_, last_image_msg_,
                   last_info_msg_>>
  /\ TimerTick =>
       UNCHANGED <<gateVars, max_video_framerate_, last_request_,
                   crop_decimate_config_, crop_decimate_configured_,
                   last_image_msg_, last_info_msg_, image_publish_timer_>>

C16_CallbackFrames == [][C16_OwnPartOnly]_vars

\* With the subscription open, a frame cached and a timer armed under a
\* request that is not PUBLISH_FREQ, the timer has ticked.
C16_Witness ==
  /\ upstream > 0
  /\ FrameCached
  /\ TimerArmed(image_publish_timer_)
  /\ Mode = ONCE
  /\ crop_decimate_configured_
  /\ ticks > 0

\* C17: the image and the camera info of one publishCroppedImage call are
\* those of one frame arrival: never the new image with the camera info of
\* the frame before, or the reverse, whatever callbacks the queue has waiting
\* while imageCb runs.
C17_CachedPair == imgCb.pc = 0 => last_image_msg_ = last_info_msg_

C17_AttemptStep ==
  calls' = calls + 1 /\ lastCall'.result \in {"published", "failed"} =>
    /\ lastCall'.image = lastCall'.info
    /\ lastCall'.image = last_image_msg_'

C17_ImageAndInfoOfOneFrame == []C17_CachedPair /\ [][C17_AttemptStep]_vars

\* imageCb has stored the new image and not yet its camera info, with a
\* timer armed that has already published the frame before.
C17_Witness ==
  /\ ImageStatement = "last_info_msg_"
  /\ last_image_msg_ # last_info_msg_
  /\ last_info_msg_ # NULL
  /\ TimerArmed(image_publish_timer_)
  /\ TimerPublishes(last_request_)
  /\ lastCall.by = "timer"
  /\ lastCall.result = "published"
  /\ lastCall.image = last_info_msg_

\* C18: opening or closing the upstream subscription changes the
\* subscription only: the request, the configuration, the timer and the
\* cached frame are untouched, a cached frame is never emptied, and a request
\* or a PUBLISH_FREQ tick that comes while the subscription is closed still
\* publishes the frame cached before it closed.
C18_GateStep ==
  (sub_' # sub_ \/ upstream' # upstream \/ connectCb) =>
    UNCHANGED <<relayVars, histVars>>

C18_CacheKept ==
  /\ last_image_msg_ # NULL => last_image_msg_' # NULL
  /\ last_info_msg_ # NULL => last_info_msg_' # NULL

C18_ClosedStillPublishes ==
  upstream = 0 /\ FrameCached =>
    /\ RequestArrives =>
         /\ lastCall'.by = "request"
         /\ lastCall'.image = last_image_msg_
         /\ lastCall'.info = last_info_msg_
         /\ lastCall'.result \in {"published", "failed"}
    /\ TimerTick /\ TimerPublishes(last_request_) =>
         /\ lastCall'.by = "timer"
         /\ lastCall'.image = last_image_msg_
         /\ lastCall'.info = last_info_msg_
         /\ lastCall'.result \in {"published", "failed"}

C18_GateChangesSubscriptionOnly ==
  [][C18_GateStep /\ C18_CacheKept /\ C18_ClosedStillPublishes]_vars

\* The subscription has been closed after the last consumer left, and a tick
\* of the timer has published the frame cached before.
C18_Witness ==
  /\ numSubscribers = 0
  /\ pending = 0
  /\ ~sub_
  /\ upstream = 0
  /\ FrameCached
  /\ lastCall.by = "timer"
  /\ lastCall.result = "published"
  /\ lastCall.image = last_image_msg_
  /\ ticks = MaxTicks
  /\ sent = MaxTicks

\* C19: publishTimerCb reads last_request_->mode without a null test, and
\* safely: an active timer implies that a request has been received, because
\* only imageRequestCb creates the timer, after it has stored the request.
C19_TimerImpliesRequest ==
  TimerArmed(image_publish_timer_) => last_request_ \in Requests

C19_TickReadsRequest == TimerTick => last_request_ \in Requests

C19_TimerCbNeverReadsNull ==
  []C19_TimerImpliesRequest /\ [][C19_TickReadsRequest]_vars

\* The timer has ticked as often as counted and has published.
C19_Witness ==
  /\ TimerArmed(image_publish_timer_)
  /\ ticks = MaxTicks
  /\ lastCall.by = "timer"
  /\ last_request_ \in Requests

====
